---------------------------- MODULE Spec2Model ----------------------------
(***************************************************************************)
(* Model of the warp-dl download engine (internal/downloader/engine.go):   *)
(* probe -> segmentation -> one fetch task per segment with bounded retry  *)
(* -> join -> merge.  The origin server, the network and the file system   *)
(* are the environment: their answers are nondeterministic choices.        *)
(***************************************************************************)
EXTENDS Integers, Sequences, FiniteSets, TLC

\* ------------------------------------------------------------------ bounds
MaxT == 2            \* largest resource size, in bytes
MaxC == 2            \* largest requested concurrency
MaxFaults == 3       \* most injected failures (network, status, file) in one run
MaxSegT == 12        \* largest total size given to the segmenter alone
MaxSegC == 6         \* largest concurrency given to the segmenter alone
MaxMergeT == 3       \* largest resource given to mergeParts alone
MaxMergeParts == 3   \* most segments given to mergeParts alone
MaxAnswers == 2      \* most records in the Answer list of a DoH response

\* ------------------------------------------------------- program constants
maxRetries == 3      \* engine.go:173

VARIABLES
    resource,        \* the origin's content, a sequence of bytes
    Concurrency,     \* Config.Concurrency
    cancelled,       \* ctx.Done() is closed
    pc,              \* Start's position: "probe", "probed", "wait", "merge", "copy", "done"
                     \* ("segmented": the segmenter on its own has run)
    ret,             \* Start's return value once pc = "done"
    TotalBytes,      \* Stats.TotalBytes
    IsResumable,     \* Engine.IsResumable
    Parts,           \* Engine.Parts, a sequence of [ID, Start, End]
    tpc,             \* per segment task: "off", "request", "stream", "backoff", "done"
    iter,            \* per task: the retry loop's variable i
    err,             \* per task: the retry loop's variable err (nil once it returned)
    body,            \* per task: what is left to read of resp.Body
    tempFile,        \* per segment: content of its temporary file
    tempExists,      \* the segments whose temporary file exists
    DownloadedBytes, \* Stats.DownloadedBytes
    errChan,         \* the buffered error channel, oldest first
    outExists,       \* the output file exists
    outFile,         \* content of the output file
    mergeIdx,        \* mergeParts' loop position (index into Parts, from 0)
    faults,          \* failures injected so far
    \* history, read by the properties only
    probe,           \* the probe's result, and its exchange until Start has used it
    attempts,        \* per task: calls of downloadPart
    waits,           \* per task: the seconds slept, in order
    lastCause,       \* per task: what its latest failed attempt returned
    result,          \* per task: what downloadPartWithRetry returned
    requests,        \* the segment GETs issued: [part, ranged, first, last]
    firstDelivered,  \* the first error any task sent
    mergeRan,        \* mergeParts was called
    copied,          \* the segments copied into the output file, in order
    dial             \* one call of the resolving transport's DialContext:
                     \* [pc, addr, queries, dialed, resp, err]

vars == <<resource, Concurrency, cancelled, pc, ret, TotalBytes, IsResumable, Parts,
          tpc, iter, err, body, tempFile, tempExists, DownloadedBytes, errChan,
          outExists, outFile, mergeIdx, faults, probe, attempts, waits, lastCause,
          result, requests, firstDelivered, mergeRan,
          copied, dial>>

envVars == <<resource, Concurrency, dial>>
mergeVars == <<outExists, outFile, mergeIdx, mergeRan, copied>>
cancelVars == <<cancelled>>

\* ------------------------------------------------------------------ values
TaskIds == 0..(MaxC - 1)

Min(a, b) == IF a < b THEN a ELSE b

\* Go's integer division truncates toward zero.
GoDiv(a, b) == IF a >= 0 THEN a \div b ELSE -((-a) \div b)

\* Errors: kind, and for the retry-exhaustion error the segment, the retry
\* count and the wrapped cause.
Err(kind) == [kind |-> kind, part |-> -1, retries |-> 0, cause |-> "nil"]
Nil == Err("nil")
Canceled == Err("canceled")

\* fmt.Errorf("failed to download part %d after %d retries: %w", part.ID, maxRetries, err)
ExhaustedErr(id, e) ==
    [kind |-> "exhausted", part |-> id, retries |-> maxRetries, cause |-> e.kind]

\* fmt.Errorf("failed to probe URL: %w", err), fmt.Errorf("failed to merge files: %w", err)
WrapErr(kind, e) == [kind |-> kind, part |-> -1, retries |-> 0, cause |-> e.kind]

\* bytes first..last (offsets from 0, inclusive) of s
Slice(s, first, last) == SubSeq(s, first + 1, last + 1)


\* ------------------------------------------------------------- environment
\* No response: the request was not sent.
NoHead == [ok |-> FALSE, status |-> -1, length |-> 0, acceptRanges |-> FALSE]
NoGet == [ok |-> FALSE, status |-> -1, length |-> 0, total |-> 0, parsed |-> FALSE]

\* What the origin can answer to the probe's HEAD: a transport error, 200 with
\* a declared length (known, or -1 when unknown) and with or without
\* "Accept-Ranges: bytes", or a rejection.
HeadResponses(res) ==
    {[ok |-> FALSE, status |-> 0, length |-> 0, acceptRanges |-> FALSE]}
    \cup {[ok |-> TRUE, status |-> 200, length |-> l, acceptRanges |-> a] :
            l \in {Len(res), -1}, a \in BOOLEAN}
    \cup {[ok |-> TRUE, status |-> 405, length |-> 0, acceptRanges |-> FALSE]}

\* What the origin can answer to the probe's GET with "Range: bytes=0-0":
\* a transport error, 206 with a Content-Range whose total parses or not, 200
\* with a declared length, or another status.
ProbeGetResponses(res) ==
    {[ok |-> FALSE, status |-> 0, length |-> 0, total |-> 0, parsed |-> FALSE]}
    \cup {[ok |-> TRUE, status |-> 206, length |-> 1, total |-> Len(res), parsed |-> p] :
            p \in {b \in BOOLEAN : Len(res) > 0}}
    \cup {[ok |-> TRUE, status |-> 200, length |-> l, total |-> 0, parsed |-> FALSE] :
            l \in {Len(res), -1}}
    \cup {[ok |-> TRUE, status |-> 403, length |-> 0, total |-> 0, parsed |-> FALSE]}

\* What the origin can answer to a segment GET.  Without a Range header: the
\* whole resource with 200.  With a satisfiable range: that range with 206.
\* With a range whose last byte precedes its first, an invalid byte-range-spec
\* that a server must ignore (RFC 7233, 2.1): the whole resource with 200.
\* Always possible: an unexpected status.
SegmentResponses(res, ranged, first, last) ==
    {[status |-> 500, body |-> <<>>]}
    \cup (IF ranged /\ first <= last
          THEN {[status |-> 206, body |-> Slice(res, first, Min(last, Len(res) - 1))] :
                    x \in {y \in {0} : first < Len(res)}}
          ELSE {[status |-> 200, body |-> res]})

\* ------------------------------------------------------------------- probe
\* Variant: a 200 to the ranged GET is reported as resumable.
probeURLRangeIgnoredResumable(head, get) ==
    IF head.ok /\ head.status = 200
    THEN [total |-> head.length, resumable |-> head.acceptRanges, err |-> Nil,
          usedGet |-> FALSE]
    ELSE IF ~get.ok
    THEN [total |-> 0, resumable |-> FALSE, err |-> Err("net"), usedGet |-> TRUE]
    ELSE IF get.status = 206 /\ get.parsed
    THEN [total |-> get.total, resumable |-> TRUE, err |-> Nil, usedGet |-> TRUE]
    ELSE IF get.status = 200
    THEN [total |-> get.length, resumable |-> TRUE, err |-> Nil, usedGet |-> TRUE]
    ELSE [total |-> 0, resumable |-> FALSE, err |-> Err("probe status"), usedGet |-> TRUE]

\* probeURL: (totalBytes, resumable, err), and whether the ranged GET was sent.
probeURL(head, get) ==
    IF head.ok /\ head.status = 200
    THEN [total |-> head.length, resumable |-> head.acceptRanges, err |-> Nil,
          usedGet |-> FALSE]
    ELSE IF ~get.ok
    THEN [total |-> 0, resumable |-> FALSE, err |-> Err("net"), usedGet |-> TRUE]
    ELSE IF get.status = 206 /\ get.parsed
    THEN [total |-> get.total, resumable |-> TRUE, err |-> Nil, usedGet |-> TRUE]
    ELSE IF get.status = 200
    THEN [total |-> get.length, resumable |-> FALSE, err |-> Nil, usedGet |-> TRUE]
    ELSE [total |-> 0, resumable |-> FALSE, err |-> Err("probe status"), usedGet |-> TRUE]

\* --------------------------------------------------------------- segmenter
\* Variant: the last segment does not absorb the remainder.
calculateSegmentsNoRemainder(T, c) ==
    LET partSize == GoDiv(T, c)
    IN  [i \in 1..c |->
            LET start == (i - 1) * partSize
            IN  [ID |-> i - 1, Start |-> start, End |-> start + partSize - 1]]

calculateSegments(T, c) ==
    LET partSize == GoDiv(T, c)
    IN  [i \in 1..c |->
            LET start == (i - 1) * partSize
                end == start + partSize - 1
            IN  [ID |-> i - 1,
                 Start |-> start,
                 End |-> IF i - 1 = c - 1 THEN T - 1 ELSE end]]

\* e.IsResumable = resumable && e.Stats.TotalBytes > 0
\* Variant: the flag ignores the size.
ResumableIgnoringSize(resumable, total) == resumable
Resumable(resumable, total) == resumable /\ total > 0

\* The single segment of the fallback to one connection.
SinglePart(total) == <<[ID |-> 0, Start |-> 0, End |-> total - 1]>>

\* Start, lines 50-69: the segments built from the probe's answer.
BuildParts(resumable, total, c) ==
    IF Resumable(resumable, total) THEN calculateSegments(total, c) ELSE SinglePart(total)

PartOf(id) == Parts[id + 1]
PartIds == {Parts[i].ID : i \in 1..Len(Parts)}

\* ------------------------------------------------------------------- state
\* A resource of n bytes, each byte distinct.
Resource(n) == [i \in 1..n |-> i]

\* The engine as NewEngine leaves it, before Start.
InitEngine ==
    /\ cancelled = FALSE
    /\ pc = "probe"
    /\ ret = Nil
    /\ TotalBytes = 0
    /\ IsResumable = FALSE
    /\ Parts = <<>>
    /\ tpc = [p \in TaskIds |-> "off"]
    /\ iter = [p \in TaskIds |-> 0]
    /\ err = [p \in TaskIds |-> Nil]
    /\ body = [p \in TaskIds |-> <<>>]
    /\ tempFile = [p \in TaskIds |-> <<>>]
    /\ tempExists = {}
    /\ DownloadedBytes = 0
    /\ errChan = <<>>
    /\ outExists = FALSE
    /\ outFile = <<>>
    /\ mergeIdx = 0
    /\ faults = 0
    /\ probe = [sent |-> FALSE, head |-> NoHead, get |-> NoGet, usedGet |-> FALSE,
                total |-> 0, resumable |-> FALSE, err |-> Nil]
    /\ attempts = [p \in TaskIds |-> 0]
    /\ waits = [p \in TaskIds |-> <<>>]
    /\ lastCause = [p \in TaskIds |-> "nil"]
    /\ result = [p \in TaskIds |-> Nil]
    /\ requests = {}
    /\ firstDelivered = Nil
    /\ mergeRan = FALSE
    /\ copied = <<>>

\* No call of the transport's DialContext.
NoResp == [ok |-> FALSE, status |-> -1, decoded |-> FALSE, Status |-> -1, Answer |-> <<>>]
NoDial == [pc |-> "idle", addr |-> [host |-> "", port |-> ""], queries |-> <<>>,
           dialed |-> <<>>, resp |-> NoResp, err |-> "nil"]

Init ==
    /\ resource \in {Resource(n) : n \in 0..MaxT}
    /\ Concurrency \in 1..MaxC
    /\ dial = NoDial
    /\ InitEngine

\* ------------------------------------------------------------------- Start
NoProbe == [sent |-> FALSE, head |-> NoHead, get |-> NoGet, usedGet |-> FALSE,
            total |-> 0, resumable |-> FALSE, err |-> Nil]

\* Start, line 45: the call of probeURL; a request on a context that is done
\* fails.
Probe ==
    /\ pc = "probe"
    /\ \E head \in HeadResponses(resource), get \in ProbeGetResponses(resource) :
        /\ cancelled => (~head.ok /\ ~get.ok)
        /\ LET r == probeURL(head, get)
           IN  probe' = [sent |-> TRUE, head |-> head,
                         get |-> IF r.usedGet THEN get ELSE NoGet,
                         usedGet |-> r.usedGet,
                         total |-> r.total, resumable |-> r.resumable, err |-> r.err]
    /\ pc' = "probed"
    /\ UNCHANGED <<envVars, cancelVars, mergeVars, ret, TotalBytes, IsResumable, Parts,
                   tpc, iter, err, body, tempFile, tempExists, DownloadedBytes, errChan,
                   faults, attempts, waits, lastCause, result, requests, firstDelivered>>

\* Start, lines 46-83: return the probe's error, or record the size and the
\* resumability flag, build the segments and start one task per segment.
StartTasks ==
    /\ pc = "probed"
    /\ IF probe.err # Nil
       THEN /\ pc' = "done"
            /\ ret' = WrapErr("probe", probe.err)
            /\ UNCHANGED <<TotalBytes, IsResumable, Parts, tpc>>
       ELSE /\ TotalBytes' = probe.total
            /\ IsResumable' = Resumable(probe.resumable, probe.total)
            /\ Parts' = BuildParts(probe.resumable, probe.total, Concurrency)
            /\ tpc' = [p \in TaskIds |-> IF p < Len(Parts') THEN "request" ELSE "off"]
            /\ pc' = "wait"
            /\ ret' = Nil
    /\ probe' = [NoProbe EXCEPT !.sent = TRUE, !.total = probe.total,
                                 !.resumable = probe.resumable, !.err = probe.err]
    /\ UNCHANGED <<envVars, cancelVars, mergeVars, iter, err, body, tempFile, tempExists,
                   DownloadedBytes, errChan, faults, attempts, waits, lastCause, result,
                   requests, firstDelivered>>

\* ------------------------------------------------------------ segment task
\* Variant: the wait counted from turn 0.
BackoffSecondsFromZero(i) == i

\* time.Duration(i+1) * time.Second
BackoffSeconds(i) == i + 1

\* Variant: an unbuffered channel.
Unbuffered(parts) == 0

\* errChan := make(chan error, len(e.Parts)), line 73: the channel's capacity.
Capacity(parts) == Len(parts)

\* The goroutine of Start, lines 77-82: downloadPartWithRetry returned e; a
\* non-nil e is sent on errChan (the send waits while the channel is full),
\* then wg.Done().
Return(p, e) ==
    /\ e # Nil => Len(errChan) < Capacity(Parts)
    /\ result' = [result EXCEPT ![p] = e]
    /\ tpc' = [tpc EXCEPT ![p] = "done"]
    /\ errChan' = IF e # Nil THEN Append(errChan, e) ELSE errChan
    /\ firstDelivered' = IF e # Nil /\ firstDelivered = Nil THEN e ELSE firstDelivered

\* Variant: the first failure is kept.
KeepFirstErr(old, e) == IF old = Nil THEN e ELSE old

\* The err variable of the retry loop after downloadPart returned e (line 177).
AssignErr(old, e) == e

\* downloadPartWithRetry, lines 177-188: downloadPart returned the error e in
\* turn i of the loop (resp.Body is closed).  With the context done the task
\* returns ctx.Err(); otherwise it sleeps.
AttemptFailed(p, e, i) ==
    /\ body' = [body EXCEPT ![p] = <<>>]
    /\ IF cancelled
       THEN /\ Return(p, Canceled)
            /\ err' = [err EXCEPT ![p] = Nil]
            /\ lastCause' = [lastCause EXCEPT ![p] = "nil"]
            /\ UNCHANGED waits
       ELSE /\ err' = [err EXCEPT ![p] = AssignErr(@, e)]
            /\ lastCause' = [lastCause EXCEPT ![p] = e.kind]
            /\ tpc' = [tpc EXCEPT ![p] = "backoff"]
            /\ waits' = [waits EXCEPT ![p] = Append(@, BackoffSeconds(i))]
            /\ UNCHANGED <<result, errChan, firstDelivered>>

\* An injected failure of the network, the origin or the file system.
Fault ==
    /\ faults < MaxFaults
    /\ faults' = faults + 1

\* downloadPart, lines 201-203: the Range header of the segment's GET.
RangeHeader(p) ==
    IF IsResumable
    THEN [part |-> p, ranged |-> TRUE, first |-> PartOf(p).Start, last |-> PartOf(p).End]
    ELSE [part |-> p, ranged |-> FALSE, first |-> 0, last |-> -1]

\* Variant: the temporary file is opened keeping what it holds.
OpenAppend(content) == content

\* os.Create(part.TempPath), line 215: the file is created, or truncated if
\* it exists.
Create(content) == <<>>

\* downloadPart, lines 193-219, called in turn i of the retry loop (line 177):
\* build the request, send it, check the status, create (truncate) the
\* temporary file.
Attempt(p, i) ==
    /\ attempts' = [attempts EXCEPT ![p] = @ + 1]
    /\ requests' = requests \cup {RangeHeader(p)}
    /\ IF cancelled
       THEN \* Client.Do fails at once on a context that is done
            /\ AttemptFailed(p, Canceled, i)
            /\ UNCHANGED <<tempFile, tempExists, faults>>
       ELSE \/ /\ Fault
               /\ AttemptFailed(p, Err("net"), i)
               /\ UNCHANGED <<tempFile, tempExists>>
            \/ \E resp \in SegmentResponses(resource, RangeHeader(p).ranged,
                                            RangeHeader(p).first, RangeHeader(p).last) :
                 IF resp.status # 206 /\ resp.status # 200
                 THEN /\ Fault
                      /\ AttemptFailed(p, Err("status"), i)
                      /\ UNCHANGED <<tempFile, tempExists>>
                 ELSE \/ /\ Fault
                         /\ AttemptFailed(p, Err("create"), i)
                         /\ UNCHANGED <<tempFile, tempExists>>
                      \/ /\ tempExists' = tempExists \cup {p}
                         /\ tempFile' = [tempFile EXCEPT ![p] = Create(@)]
                         /\ body' = [body EXCEPT ![p] = resp.body]
                         /\ tpc' = [tpc EXCEPT ![p] = "stream"]
                         /\ UNCHANGED <<err, lastCause, waits, result, errChan,
                                        firstDelivered, faults>>

\* The task starts: turn 0 of the retry loop calls downloadPart.
Request(p) ==
    /\ pc = "wait"
    /\ tpc[p] = "request"
    /\ Attempt(p, iter[p])
    /\ UNCHANGED <<envVars, cancelVars, mergeVars, pc, ret, TotalBytes, IsResumable,
                   Parts, iter, DownloadedBytes, probe>>

\* buf := make([]byte, 32*1024): no modelled body is longer
BufSize == 32 * 1024

\* Stats.AddDownloaded: atomic.AddInt64(&s.DownloadedBytes, n)
AddDownloaded(n) == DownloadedBytes' = DownloadedBytes + n

\* downloadPart, lines 223-246: one turn of the streaming loop.  Read returns
\* n bytes and nil, io.EOF (only with the body exhausted) or an error; the
\* bytes are written to the temporary file and counted.
Stream(p) ==
    /\ pc = "wait"
    /\ tpc[p] = "stream"
    /\ UNCHANGED <<envVars, cancelVars, mergeVars, pc, ret, TotalBytes, IsResumable,
                   Parts, iter, tempExists, probe, attempts, requests>>
    /\ IF cancelled
       THEN \* case <-ctx.Done(): return ctx.Err()
            /\ AttemptFailed(p, Canceled, iter[p])
            /\ UNCHANGED <<tempFile, DownloadedBytes, faults>>
       ELSE \E n \in 0..Min(BufSize, Len(body[p])) :
            LET chunk == SubSeq(body[p], 1, n)
                rest == SubSeq(body[p], n + 1, Len(body[p]))
            IN  \/ \* the write fails: nw < n bytes reach the file (os.File.Write
                   \* returns an error whenever nw < n, so line 235 is never reached)
                   /\ n > 0
                   /\ Fault
                   /\ \E nw \in 0..(n - 1) :
                        /\ tempFile' = [tempFile EXCEPT ![p] = @ \o SubSeq(chunk, 1, nw)]
                        /\ AttemptFailed(p, Err("write"), iter[p])
                   /\ UNCHANGED DownloadedBytes
                \/ \* the write succeeds and Read reported no error
                   /\ n > 0
                   /\ tempFile' = [tempFile EXCEPT ![p] = @ \o chunk]
                   /\ AddDownloaded(n)
                   /\ body' = [body EXCEPT ![p] = rest]
                   /\ UNCHANGED <<tpc, err, lastCause, waits, result, errChan,
                                  firstDelivered, faults>>
                \/ \* Read reported io.EOF: return nil
                   /\ rest = <<>>
                   /\ tempFile' = [tempFile EXCEPT ![p] = @ \o chunk]
                   /\ AddDownloaded(n)
                   /\ body' = [body EXCEPT ![p] = rest]
                   /\ Return(p, Nil)
                   /\ err' = [err EXCEPT ![p] = Nil]
                   /\ lastCause' = [lastCause EXCEPT ![p] = "nil"]
                   /\ UNCHANGED <<waits, faults>>
                \/ \* Read reported another error, after the n bytes were written
                   /\ Fault
                   /\ tempFile' = [tempFile EXCEPT ![p] = @ \o chunk]
                   /\ AddDownloaded(n)
                   /\ AttemptFailed(p, Err("read"), iter[p])

\* downloadPartWithRetry, lines 176-177 and 187-190: the sleep ends and the
\* loop goes on: turn i+1 calls downloadPart, or after the last turn the task
\* returns the retry-exhaustion error.
Backoff(p) ==
    /\ pc = "wait"
    /\ tpc[p] = "backoff"
    /\ iter' = [iter EXCEPT ![p] = @ + 1]
    /\ IF iter[p] + 1 < maxRetries
       THEN Attempt(p, iter[p] + 1)
       ELSE /\ Return(p, ExhaustedErr(PartOf(p).ID, err[p]))
            /\ err' = [err EXCEPT ![p] = Nil]
            /\ UNCHANGED <<body, tempFile, tempExists, faults, attempts, waits,
                           lastCause, requests>>
    /\ UNCHANGED <<envVars, cancelVars, mergeVars, pc, ret, TotalBytes, IsResumable,
                   Parts, DownloadedBytes, probe>>

\* main's cancel() (cmd/warp-dl, runDownload): the user quits the UI while
\* Start runs.
Cancel ==
    /\ ~cancelled
    /\ pc # "done"
    /\ cancelled' = TRUE
    /\ UNCHANGED <<envVars, mergeVars, pc, ret, TotalBytes, IsResumable, Parts, tpc,
                   iter, err, body, tempFile, tempExists, DownloadedBytes, errChan,
                   faults, probe, attempts, waits, lastCause, result, requests,
                   firstDelivered>>

\* -------------------------------------------------------------------- join
\* Variant: one finished task is enough.
JoinedAny == \E p \in PartIds : tpc[p] = "done"

\* wg.Wait(): every segment task has called wg.Done().
Joined == \A p \in PartIds : tpc[p] = "done"

\* Variant: the newest error in the channel.
LastError(ch) == ch[Len(ch)]

\* return <-errChan: the oldest error in the channel.
FirstError(ch) == Head(ch)

\* Start, lines 86-95: wait for the tasks, close the channel, return the first
\* error if there is one, else call mergeParts.
Join ==
    /\ pc = "wait"
    /\ Joined
    /\ IF Len(errChan) > 0
       THEN /\ pc' = "done"
            /\ ret' = FirstError(errChan)
            /\ UNCHANGED mergeRan
       ELSE /\ pc' = "merge"
            /\ mergeRan' = TRUE
            /\ UNCHANGED ret
    /\ UNCHANGED <<envVars, cancelVars, outExists, outFile, mergeIdx, copied, TotalBytes,
                   IsResumable, Parts, tpc, iter, err, body, tempFile, tempExists,
                   DownloadedBytes, errChan, faults, probe, attempts, waits, lastCause,
                   result, requests, firstDelivered>>

\* ------------------------------------------------------------------- merge
\* mergeParts, lines 250-254: create (truncate) the output file.
MergeCreate ==
    /\ pc = "merge"
    /\ \/ /\ Fault
          /\ pc' = "done"
          /\ ret' = WrapErr("merge", Err("create"))
          /\ UNCHANGED <<outExists, outFile, mergeIdx>>
       \/ /\ outExists' = TRUE
          /\ outFile' = <<>>
          /\ mergeIdx' = 0
          /\ pc' = "copy"
          /\ UNCHANGED <<ret, faults>>
    /\ UNCHANGED <<envVars, cancelVars, mergeRan, copied, TotalBytes, IsResumable, Parts,
                   tpc, iter, err, body, tempFile, tempExists, DownloadedBytes, errChan,
                   probe, attempts, waits, lastCause, result, requests, firstDelivered>>

\* Variant: the loop runs over e.Parts from its end.
NextPartDescending(parts, k) == parts[Len(parts) - k]

\* for _, part := range e.Parts (line 256): the segment of turn k, from 0.
NextPart(parts, k) == parts[k + 1]

\* Variant: the temporary file is left behind.
RemoveNothing(exists, id) == exists

\* os.Remove(part.TempPath), line 270 (its error is not looked at; the call
\* is taken to succeed).
Remove(exists, id) == exists \ {id}

\* Variant: the output is emptied when a copy fails.
RolledBack(out, data, nw) == <<>>

\* io.Copy(finalFile, partFile) failing after nw bytes (line 263): the bytes
\* already written stay in the output.
PartialCopy(out, data, nw) == out \o SubSeq(data, 1, nw)

\* mergeParts, lines 256-273: one turn of the loop over e.Parts: open the
\* segment's temporary file, copy it to the output, remove it; after the last
\* segment, return nil.
MergeCopy ==
    /\ pc = "copy"
    /\ LET part == NextPart(Parts, mergeIdx)
           id == part.ID
       IN  \/ \* os.Open fails
              /\ Fault \/ (id \notin tempExists /\ UNCHANGED faults)
              /\ pc' = "done"
              /\ ret' = WrapErr("merge", Err("open"))
              /\ UNCHANGED <<outFile, mergeIdx, copied, tempExists>>
           \/ \* io.Copy fails partway
              /\ id \in tempExists
              /\ Fault
              /\ \E nw \in 0..Len(tempFile[id]) :
                    outFile' = PartialCopy(outFile, tempFile[id], nw)
              /\ pc' = "done"
              /\ ret' = WrapErr("merge", Err("copy"))
              /\ UNCHANGED <<mergeIdx, copied, tempExists>>
           \/ \* copied and removed
              /\ id \in tempExists
              /\ outFile' = outFile \o tempFile[id]
              /\ copied' = Append(copied, id)
              /\ tempExists' = Remove(tempExists, id)
              /\ mergeIdx' = mergeIdx + 1
              /\ IF mergeIdx + 1 = Len(Parts)
                 THEN pc' = "done" /\ ret' = Nil
                 ELSE UNCHANGED <<pc, ret>>
              /\ UNCHANGED faults
    /\ UNCHANGED <<envVars, cancelVars, outExists, mergeRan, TotalBytes, IsResumable,
                   Parts, tpc, iter, err, body, tempFile, DownloadedBytes, errChan,
                   probe, attempts, waits, lastCause, result, requests, firstDelivered>>

\* ----------------------------------------------------------- specification
Next ==
    \/ Probe
    \/ StartTasks
    \/ \E p \in TaskIds : Request(p)
    \/ \E p \in TaskIds : Stream(p)
    \/ \E p \in TaskIds : Backoff(p)
    \/ Cancel
    \/ Join
    \/ MergeCreate
    \/ MergeCopy

Spec == Init /\ [][Next]_vars

\* Every HTTP request, file operation and sleep returns, and every goroutine
\* that can take a step is scheduled.  The cancellation is the caller's and
\* need not happen.
Fairness ==
    /\ WF_vars(Probe)
    /\ WF_vars(StartTasks)
    /\ \A p \in TaskIds : WF_vars(Request(p)) /\ WF_vars(Stream(p)) /\ WF_vars(Backoff(p))
    /\ WF_vars(Join)
    /\ WF_vars(MergeCreate)
    /\ WF_vars(MergeCopy)

FairSpec == Init /\ [][Next]_vars /\ Fairness

\* ------------------------------------------------ the segmenter on its own
\* calculateSegments applied to a total size T > 0 and a concurrency c >= 1,
\* as Start applies it to a resumable resource (lines 50-60).
InitSeg ==
    /\ resource \in {Resource(n) : n \in 1..MaxSegT}
    /\ Concurrency \in 1..MaxSegC
    /\ dial = NoDial
    /\ InitEngine

Segment ==
    /\ pc = "probe"
    /\ TotalBytes' = Len(resource)
    /\ IsResumable' = Resumable(TRUE, Len(resource))
    /\ Parts' = BuildParts(TRUE, Len(resource), Concurrency)
    /\ pc' = "segmented"
    /\ UNCHANGED <<envVars, cancelVars, mergeVars, ret, tpc, iter, err, body, tempFile,
                   tempExists, DownloadedBytes, errChan, faults, probe, attempts, waits,
                   lastCause, result, requests, firstDelivered>>

SpecSeg == InitSeg /\ [][Segment]_vars

\* ------------------------------------------------- mergeParts on its own
\* The sum of a sequence of sizes.
RECURSIVE Sum(_)
Sum(s) == IF s = <<>> THEN 0 ELSE Head(s) + Sum(Tail(s))

\* The ways to cut n bytes into 1..MaxMergeParts consecutive segments, a
\* segment of no bytes included: the sequences of sizes.
Partitions(n) ==
    UNION {{s \in [1..k -> 0..n] : Sum(s) = n} : k \in 1..MaxMergeParts}

\* The segments of the given sizes, laid end to end from offset 0.
PartsOfSizes(s) ==
    [i \in 1..Len(s) |->
        LET start == Sum(SubSeq(s, 1, i - 1))
        IN  [ID |-> i - 1, Start |-> start, End |-> start + s[i] - 1]]

\* Start at line 95: every task has returned nil, each segment's temporary
\* file holds the bytes of its range, mergeParts is about to run.
InitMerge ==
    /\ resource \in {Resource(n) : n \in 0..MaxMergeT}
    /\ Parts \in {PartsOfSizes(s) : s \in Partitions(Len(resource))}
    /\ Concurrency = Len(Parts)
    /\ dial = NoDial
    /\ cancelled = FALSE
    /\ pc = "merge"
    /\ ret = Nil
    /\ TotalBytes = Len(resource)
    /\ IsResumable = TRUE
    /\ tpc = [p \in 0..(Len(Parts) - 1) |-> "done"]
    /\ iter = [p \in 0..(Len(Parts) - 1) |-> 0]
    /\ err = [p \in 0..(Len(Parts) - 1) |-> Nil]
    /\ body = [p \in 0..(Len(Parts) - 1) |-> <<>>]
    /\ tempFile = [p \in 0..(Len(Parts) - 1) |->
                      Slice(resource, Parts[p + 1].Start, Parts[p + 1].End)]
    /\ tempExists = 0..(Len(Parts) - 1)
    /\ DownloadedBytes = Len(resource)
    /\ errChan = <<>>
    /\ outExists = FALSE
    /\ outFile = <<>>
    /\ mergeIdx = 0
    /\ faults = 0
    /\ probe = [NoProbe EXCEPT !.sent = TRUE, !.total = Len(resource), !.resumable = TRUE]
    /\ attempts = [p \in 0..(Len(Parts) - 1) |-> 1]
    /\ waits = [p \in 0..(Len(Parts) - 1) |-> <<>>]
    /\ lastCause = [p \in 0..(Len(Parts) - 1) |-> "nil"]
    /\ result = [p \in 0..(Len(Parts) - 1) |-> Nil]
    /\ requests = {}
    /\ firstDelivered = Nil
    /\ mergeRan = TRUE
    /\ copied = <<>>

NextMerge ==
    \/ MergeCreate
    \/ MergeCopy

SpecMerge == InitMerge /\ [][NextMerge]_vars

\* ------------------------------------------------- the resolving transport
\* Hosts a dial request can name: literal IP addresses and host names.
IPLiterals == {"93.184.216.34", "2606:4700::1111"}
HostNames == {"example.com", "cdn.example.net"}
Ports == {"80", "443"}

\* The addr argument of DialContext; "missing" stands for an address without
\* a port, which net.SplitHostPort rejects.
Addrs == [host : IPLiterals \cup HostNames, port : Ports \cup {"missing"}]

\* net.SplitHostPort(addr)
SplitHostPort(addr) == [host |-> addr.host, port |-> addr.port, err |-> addr.port = "missing"]

\* net.ParseIP(host) != nil
ParseIP(host) == host \in IPLiterals

\* net.JoinHostPort(ip, port)
JoinHostPort(ip, port) == [host |-> ip, port |-> port]

\* The Answer lists of a DoH response: records of type 1 (A) or 5 (CNAME).
Answers == [type : {1, 5}, data : {"10.0.0.1", "10.0.0.2"}]
AnswerLists == UNION {[1..n -> Answers] : n \in 0..MaxAnswers}

\* What the DoH provider can answer: a transport error or timeout, a status
\* other than 200, a body that is not the JSON expected, or a response with a
\* DNS status (0, or 3 for NXDOMAIN) and an Answer list.
DoHResponses ==
    {[ok |-> FALSE, status |-> 0, decoded |-> FALSE, Status |-> 0, Answer |-> <<>>],
     [ok |-> TRUE, status |-> 503, decoded |-> FALSE, Status |-> 0, Answer |-> <<>>],
     [ok |-> TRUE, status |-> 200, decoded |-> FALSE, Status |-> 0, Answer |-> <<>>]}
    \cup {[ok |-> TRUE, status |-> 200, decoded |-> TRUE, Status |-> st, Answer |-> a] :
            st \in {0, 3}, a \in AnswerLists}

\* Variant: the first record of the Answer list, whatever its type.
resolveDoHFirstAnswer(resp) ==
    IF ~resp.ok THEN [ip |-> "", err |-> "net"]
    ELSE IF resp.status # 200 THEN [ip |-> "", err |-> "status"]
    ELSE IF ~resp.decoded THEN [ip |-> "", err |-> "decode"]
    ELSE IF resp.Status # 0 THEN [ip |-> "", err |-> "dns error code"]
    ELSE IF Len(resp.Answer) = 0 THEN [ip |-> "", err |-> "no answer"]
    ELSE [ip |-> resp.Answer[1].data, err |-> "nil"]

\* resolveDoH, lines 88-119: the address of the first A record, or an error.
resolveDoH(resp) ==
    IF ~resp.ok THEN [ip |-> "", err |-> "net"]
    ELSE IF resp.status # 200 THEN [ip |-> "", err |-> "status"]
    ELSE IF ~resp.decoded THEN [ip |-> "", err |-> "decode"]
    ELSE IF resp.Status # 0 THEN [ip |-> "", err |-> "dns error code"]
    ELSE IF Len(resp.Answer) = 0 THEN [ip |-> "", err |-> "no answer"]
    ELSE IF \E i \in 1..Len(resp.Answer) : resp.Answer[i].type = 1
    THEN LET first == CHOOSE i \in 1..Len(resp.Answer) :
                          /\ resp.Answer[i].type = 1
                          /\ \A j \in 1..(i - 1) : resp.Answer[j].type # 1
         IN  [ip |-> resp.Answer[first].data, err |-> "nil"]
    ELSE [ip |-> "", err |-> "no A record"]

engineVars == <<resource, Concurrency, cancelVars, mergeVars, pc, ret, TotalBytes,
                IsResumable, Parts, tpc, iter, err, body, tempFile, tempExists,
                DownloadedBytes, errChan, faults, probe, attempts, waits, lastCause,
                result, requests, firstDelivered>>

\* DialContext, lines 32-49: split the address; dial a literal IP as it is;
\* for a host name send the DoH query.
DialContext ==
    /\ dial.pc = "idle"
    /\ LET a == SplitHostPort(dial.addr)
       IN  IF a.err
           THEN dial' = [dial EXCEPT !.pc = "done", !.err = "address"]
           ELSE IF ParseIP(a.host)
           THEN dial' = [dial EXCEPT !.pc = "done", !.dialed = Append(@, dial.addr)]
           ELSE dial' = [dial EXCEPT !.pc = "resolving", !.queries = Append(@, a.host)]
    /\ UNCHANGED engineVars

\* DialContext, lines 46-56: resolveDoH returns; on an error nothing is
\* dialed, else the resolved address is dialed on the port asked for.
DoHReturn ==
    /\ dial.pc = "resolving"
    /\ \E resp \in DoHResponses :
         LET r == resolveDoH(resp)
         IN  dial' = IF r.err # "nil"
                     THEN [dial EXCEPT !.pc = "done", !.resp = resp,
                                       !.err = "DoH resolution failed"]
                     ELSE [dial EXCEPT !.pc = "done", !.resp = resp,
                                       !.dialed = Append(@, JoinHostPort(r.ip, dial.addr.port))]
    /\ UNCHANGED engineVars

InitDial ==
    /\ resource = Resource(0)
    /\ Concurrency = 1
    /\ dial \in {[NoDial EXCEPT !.addr = a] : a \in Addrs}
    /\ InitEngine

NextDial ==
    \/ DialContext
    \/ DoHReturn

SpecDial == InitDial /\ [][NextDial]_vars

\* ------------------------------------------------------------------ claims
\* The bytes of a segment, as a set of offsets.
Bytes(part) == part.Start .. part.End

\* C1: for every total size T > 0 and concurrency c >= 1, calculateSegments
\* yields exactly c segments with IDs 0..c-1 whose inclusive ranges are
\* contiguous (each starts one past the end of the one before), do not
\* overlap, start at 0 and together cover exactly [0, T-1], the last one
\* ending at T-1.
C1_SegmentsPartition ==
    pc = "segmented" =>
        LET T == TotalBytes
            c == Concurrency
        IN  /\ Len(Parts) = c
            /\ \A i \in 1..c : Parts[i].ID = i - 1
            /\ Parts[1].Start = 0
            /\ Parts[c].End = T - 1
            /\ \A i \in 1..(c - 1) : Parts[i + 1].Start = Parts[i].End + 1
            /\ \A i, j \in 1..c : i # j => Bytes(Parts[i]) \cap Bytes(Parts[j]) = {}
            /\ UNION {Bytes(Parts[i]) : i \in 1..c} = 0..(T - 1)

\* A segmentation with a remainder for the last segment to absorb.
C1_Witness ==
    /\ pc = "segmented"
    /\ Concurrency = 3
    /\ TotalBytes = 11
    /\ Parts[3].Start = 6
    /\ Parts[3].End = 10

\* C2: whenever Start returns nil the output file holds exactly the source's
\* bytes, for every concurrency, every sequence of failed and retried
\* attempts and every accepted status (200 or 206) of the segment GETs.
C2_OutputEqualsSource ==
    (pc = "done" /\ ret = Nil) => outFile = resource

\* C3: once the probe has set a known total T > 0, the downloaded bytes never
\* exceed T at any point of the transfer, retried attempts included, and they
\* equal T when Start returns success.
C3_DownloadedWithinTotal ==
    (pc \in {"wait", "merge", "copy", "done"} /\ TotalBytes > 0) =>
        /\ DownloadedBytes <= TotalBytes
        /\ (pc = "done" /\ ret = Nil) => DownloadedBytes = TotalBytes

\* C4: a task that is in its backoff wait or streaming when the context is
\* done, and then reports an error, reports the cancellation error, whatever
\* the attempt, the wait after the last attempt included.
C4_CancelTakesPriority ==
    [][\A p \in TaskIds :
          (cancelled /\ tpc[p] \in {"backoff", "stream"}
                     /\ tpc'[p] = "done" /\ result'[p] # Nil)
              => result'[p] = Canceled]_vars

\* C5: once the context is done during a task's backoff wait, the task calls
\* downloadPart no more: no further attempt, no new request for the segment.
C5_NoAttemptAfterCancelInWait ==
    [][\A p \in TaskIds :
          (cancelled /\ tpc[p] = "backoff")
              => (attempts'[p] = attempts[p] /\ requests' = requests)]_vars

\* C6: Start inspects the errors, runs the merge and returns only after every
\* segment task has finished: the output file is never created or written,
\* and Start has never returned, while a task is still running.
C6_JoinBeforeMerge ==
    (pc \in {"merge", "copy", "done"} \/ outExists \/ mergeRan \/ ret # Nil) =>
        \A p \in TaskIds : tpc[p] \in {"off", "done"}

\* Two tasks joined, one after a retry, and the merge is writing the output.
C6_Witness ==
    /\ pc = "copy"
    /\ outExists
    /\ Len(Parts) = 2
    /\ \E p \in TaskIds : attempts[p] = 2
    /\ \A p \in TaskIds : tpc[p] = "done"

\* C7: a task makes at most 3 attempts, and one that succeeds on its k-th
\* attempt has been retried k-1 times after waits of 1, ..., k-1 seconds: two
\* failures then a success give two retries, waits of 1 s then 2 s, and
\* success.
C7_RetryBackoff ==
    \A p \in TaskIds :
        /\ attempts[p] <= maxRetries
        /\ (tpc[p] = "done" /\ result[p] = Nil) =>
              /\ attempts[p] \in 1..maxRetries
              /\ waits[p] = [k \in 1..(attempts[p] - 1) |-> k]
        /\ (tpc[p] = "stream" /\ attempts[p] = 3) => waits[p] = <<1, 2>>

\* A task that failed twice and succeeded on its third attempt.
C7_Witness ==
    \E p \in TaskIds :
        /\ tpc[p] = "done"
        /\ result[p] = Nil
        /\ attempts[p] = 3
        /\ waits[p] = <<1, 2>>
        /\ ~cancelled

\* C8: a task whose 3 attempts all fail, with no cancellation, makes exactly 3
\* attempts and reports the retry-exhaustion error, which names the segment's
\* index and wraps what the third attempt returned.
C8_ExhaustionError ==
    \A p \in TaskIds :
        /\ (tpc[p] = "done" /\ result[p] # Nil /\ ~cancelled) =>
              result[p].kind = "exhausted"
        /\ result[p].kind = "exhausted" =>
              /\ attempts[p] = 3
              /\ result[p].part = p
              /\ result[p].retries = 3
              /\ result[p].cause = lastCause[p]
              /\ result[p].cause \notin {"nil", "canceled"}

\* Segment 1 exhausted its retries without cancellation; its third attempt
\* failed reading the body.
C8_Witness ==
    /\ ~cancelled
    /\ tpc[1] = "done"
    /\ result[1] = [kind |-> "exhausted", part |-> 1, retries |-> 3, cause |-> "read"]
    /\ attempts[1] = 3

\* C9: if some segment task ended in a terminal error, Start returns the first
\* error a task delivered, mergeParts is not run and the output file is not
\* created; Start returns nil only if every task succeeded and the merge
\* copied every segment.
C9_FirstErrorReturned ==
    pc = "done" =>
        /\ (\E p \in TaskIds : result[p] # Nil) =>
              /\ ret # Nil
              /\ ret = firstDelivered
              /\ ~mergeRan
              /\ ~outExists
        /\ ret = Nil =>
              /\ Parts # <<>>
              /\ \A p \in PartIds : tpc[p] = "done" /\ result[p] = Nil
              /\ mergeRan
              /\ copied = [i \in 1..Len(Parts) |-> i - 1]

\* Start returned with two different terminal errors delivered.
C9_Witness ==
    /\ pc = "done"
    /\ Len(errChan) = 2
    /\ errChan[1] # errChan[2]
    /\ ret = errChan[1]

\* C10: when the probe reports no range support or a total T <= 0, Start
\* builds exactly one segment (ID 0, Start 0) whatever the concurrency, and no
\* GET for it carries a Range header; a segment GET carries a Range header if
\* and only if the resumability flag (range support and T > 0) is true.
C10_SingleSegmentFallback ==
    Parts # <<>> =>
        LET flag == probe.resumable /\ probe.total > 0
        IN  /\ IsResumable = flag
            /\ ~flag => (Len(Parts) = 1 /\ Parts[1].ID = 0 /\ Parts[1].Start = 0)
            /\ \A r \in requests : r.ranged = flag

\* Range support reported, but no known size: one unranged segment although
\* the concurrency is 2.
C10_Witness ==
    /\ pc = "wait"
    /\ Concurrency = 2
    /\ probe.resumable
    /\ probe.total <= 0
    /\ Len(Parts) = 1
    /\ requests = {[part |-> 0, ranged |-> FALSE, first |-> 0, last |-> -1]}

\* C11: mergeParts copies the temporary files in ascending index order
\* 0, 1, ..., c-1, each exactly once; so for any partition of a resource into
\* consecutive segments of arbitrary sizes whose temporary files hold their
\* ranges' bytes, the output of a successful merge equals the resource byte
\* for byte.
C11_MergeInOrder ==
    /\ pc \in {"copy", "done"} => copied = [i \in 1..Len(copied) |-> i - 1]
    /\ (pc = "done" /\ ret = Nil) =>
            /\ copied = [i \in 1..Len(Parts) |-> i - 1]
            /\ outFile = resource

\* A merge of three segments of sizes 2, 0 and 1 has succeeded.
C11_Witness ==
    /\ pc = "done"
    /\ ret = Nil
    /\ Len(Parts) = 3
    /\ Parts[1].End = 1
    /\ Parts[2].End = 1
    /\ Parts[3].End = 2
    /\ outFile = <<1, 2, 3>>

\* C12: the probe falls back to the one-byte ranged GET not only when HEAD
\* fails or is rejected but also when HEAD succeeds yet is uninformative:
\* status 200 without "Accept-Ranges: bytes", or without a known content
\* length.
C12_FallbackWhenUninformative ==
    (/\ pc = "probed"
     /\ probe.head.ok
     /\ probe.head.status = 200
     /\ (~probe.head.acceptRanges \/ probe.head.length < 0))
        => probe.usedGet

RECURSIVE Concat(_)
Concat(ids) == IF ids = <<>> THEN <<>> ELSE tempFile[Head(ids)] \o Concat(Tail(ids))

C15_MergeFailureLeavesFiles ==
    (pc = "done" /\ ret # Nil /\ outExists) =>
        LET k == mergeIdx
        IN  /\ ret \in {WrapErr("merge", Err("open")), WrapErr("merge", Err("copy"))}
            /\ copied = [i \in 1..k |-> i - 1]
            /\ tempExists = k..(Len(Parts) - 1)
            /\ ret = WrapErr("merge", Err("open")) => outFile = Concat(copied)
            /\ ret = WrapErr("merge", Err("copy")) =>
                  \E n \in 0..Len(tempFile[k]) :
                      outFile = Concat(copied) \o SubSeq(tempFile[k], 1, n)

\* Of three segments [0,0], [1,2] and an empty one, the copy of the second
\* failed after one byte.
C15_Witness ==
    /\ pc = "done"
    /\ ret = WrapErr("merge", Err("copy"))
    /\ Len(Parts) = 3
    /\ Parts[2].Start = 1
    /\ Parts[2].End = 2
    /\ mergeIdx = 1
    /\ outFile = <<1, 2>>
    /\ tempExists = {1, 2}

\* C16: on a dial request whose host is a literal IP address the transport
\* sends no DoH query and dials the original address; on a request for a
\* host name it dials only after the DoH resolution succeeded, the address of
\* the first A (type 1) record on the original port, and dials nothing when
\* the resolution fails.
C16_DialAfterResolution ==
    LET a == dial.addr
        ans == dial.resp.Answer
        resolved == /\ dial.resp.ok
                    /\ dial.resp.status = 200
                    /\ dial.resp.decoded
                    /\ dial.resp.Status = 0
                    /\ \E i \in 1..Len(ans) : ans[i].type = 1
    IN  /\ (a.host \in IPLiterals /\ a.port \in Ports /\ dial.pc = "done") =>
              (dial.queries = <<>> /\ dial.dialed = <<a>>)
        /\ (a.host \in HostNames /\ a.port \in Ports) =>
              /\ dial.pc = "resolving" => (dial.queries = <<a.host>> /\ dial.dialed = <<>>)
              /\ (dial.pc = "done" /\ ~resolved) => (dial.dialed = <<>> /\ dial.err # "nil")
              /\ (dial.pc = "done" /\ resolved) =>
                    \E i \in 1..Len(ans) :
                        /\ ans[i].type = 1
                        /\ \A j \in 1..(i - 1) : ans[j].type # 1
                        /\ dial.dialed = <<[host |-> ans[i].data, port |-> a.port]>>

\* A host name was resolved by a response whose first record is a CNAME and
\* whose second is an A record: its address was dialed on port 443.
C16_Witness ==
    /\ dial.pc = "done"
    /\ dial.addr = [host |-> "example.com", port |-> "443"]
    /\ dial.resp.Status = 0
    /\ Len(dial.resp.Answer) = 2
    /\ dial.resp.Answer[1] = [type |-> 5, data |-> "10.0.0.1"]
    /\ dial.resp.Answer[2] = [type |-> 1, data |-> "10.0.0.2"]
    /\ dial.dialed = <<[host |-> "10.0.0.2", port |-> "443"]>>

\* C17: backoff waits occur only between attempts: a task waits k seconds
\* after its failed attempt k only when an attempt k+1 follows, so a task
\* that has returned has waited fewer times than it made attempts, and a
\* task whose 3 attempts all failed has waited exactly twice (1 s, 2 s), with
\* no wait after the third failure.
C17_WaitsOnlyBetweenAttempts ==
    \A p \in TaskIds :
        tpc[p] = "done" =>
            /\ Len(waits[p]) <= attempts[p] - 1
            /\ result[p].kind = "exhausted" => waits[p] = <<1, 2>>

\* C18: every attempt that reaches the streaming step starts from an empty
\* temporary file: while a task streams, its file holds exactly the bytes the
\* current attempt has read of its response, and when a task succeeds, after
\* earlier failed attempts that wrote bytes or not, its file holds exactly the
\* body of the final attempt's response, nothing of earlier attempts
\* duplicated or left over.
C18_TruncateAndRestart ==
    \A p \in TaskIds :
        LET h == RangeHeader(p)
            bodies == {r.body : r \in {x \in SegmentResponses(resource, h.ranged,
                                                               h.first, h.last) :
                                           x.status \in {200, 206}}}
        IN  /\ tpc[p] = "stream" => tempFile[p] \o body[p] \in bodies
            /\ (tpc[p] = "done" /\ result[p] = Nil) => tempFile[p] \in bodies

\* The only segment of a 2-byte resource succeeded at its second attempt
\* after a first attempt that had written a byte: 3 bytes were counted, the
\* file holds the 2 bytes of the second attempt.
C18_Witness ==
    /\ Len(Parts) = 1
    /\ tpc[0] = "done"
    /\ result[0] = Nil
    /\ attempts[0] = 2
    /\ DownloadedBytes = 3
    /\ tempFile[0] = <<1, 2>>

\* C19: every Range header sent on a segment GET names a valid, non-empty
\* byte range: in a resumable transfer of T > 0 bytes with any concurrency
\* c >= 1 (c > T included), 0 <= first <= last <= T-1.
C19_RangesValid ==
    \A r \in requests :
        r.ranged => (0 <= r.first /\ r.first <= r.last /\ r.last <= TotalBytes - 1)

\* C20: given that every HTTP request and file operation returns, Start
\* always terminates: it reaches its return, whether or not segments failed;
\* no task makes more than 3 attempts; the error channel never holds more
\* than one error per task, each task having sent at most one, so no send
\* blocks; and once the join barrier is passed no task is running.
C20_StartTerminates ==
    /\ <>(pc = "done")
    /\ [](\A p \in TaskIds : attempts[p] <= maxRetries)
    /\ [](/\ Len(errChan) <= Len(Parts)
          /\ Len(errChan) = Cardinality({p \in TaskIds : tpc[p] = "done" /\ result[p] # Nil}))
    /\ [](pc \in {"merge", "copy", "done"} => \A p \in TaskIds : tpc[p] \in {"off", "done"})

\* Start has returned after both tasks failed, one of them at its third
\* attempt: the channel held both errors.
C20_Witness ==
    /\ pc = "done"
    /\ Len(Parts) = 2
    /\ Len(errChan) = 2
    /\ \E p \in TaskIds : attempts[p] = maxRetries /\ result[p].kind = "exhausted"
    /\ \A p \in TaskIds : tpc[p] = "done"

=============================================================================
